---- MODULE Spec2Model ----
(***************************************************************************)
(* Model of updateFileName.py: main() rewrites the four firmware version   *)
(* marker lines of a file through a sibling ".tmp" file and prints the     *)
(* resulting version.                                                      *)
(*                                                                         *)
(* A line of text is a sequence of tokens.  A token is one character, or   *)
(* one of the literal texts the program searches for or writes (the four   *)
(* "#define FW_..." markers, the four-space indentation).  The filesystem  *)
(* maps a path to a file; a file is the sequence of its lines as they are  *)
(* stored, each with the line terminator it has on disk.  Both files are   *)
(* opened in text mode: a line read has its terminator translated to       *)
(* "\n", a line written has "\n" translated to os.linesep.                 *)
(***************************************************************************)
EXTENDS Integers, Sequences, FiniteSets, TLC

VARIABLES
    now,      \* the wall clock: an index into Dates
    linesep,  \* os.linesep of the host: "\n", or "\r" "\n"
    fs,       \* the filesystem: path -> [exists, lines]
    pc,       \* position of the process inside main: idle/day/year/scan/print
    args,     \* the arguments main was called with
    loc,      \* main's local variables
    idx,      \* number of the next line the for loop reads
    out,      \* lines printed on standard output by the current/last run
    status,   \* how the last run ended: none/running/ok/raised/killed/killed_after
    orig,     \* content of the target file when the current/last run started
    last,     \* summary of the most recent run that completed
    prev,     \* summary of the completed run before it
    runs      \* number of runs started

vars == <<now, linesep, fs, pc, args, loc, idx, out, status, orig, last, prev, runs>>

-----------------------------------------------------------------------------
(* Bounds *)

MaxRuns == 2

-----------------------------------------------------------------------------
(* Tokens and text conversions *)

None == <<>>
Some(v) == <<v>>

IND == "    "
DEF_MAJOR == "#define FW_MAJOR_VERSION"
DEF_MINOR == "#define FW_MINOR_VERSION"
DEF_VERSION == "#define FW_VERSION_VERSION"
DEF_REVISION == "#define FW_REVISION_VERSION"
NL == "\n"
CR == "\r"
NONE_TEXT == "None"

Digits == <<"0", "1", "2", "3", "4", "5", "6", "7", "8", "9">>
IsDigit(c) == \E d \in 1..10 : Digits[d] = c
DigitVal(c) == (CHOOSE d \in 1..10 : Digits[d] = c) - 1
IsSpace(c) == c \in {" ", IND, NL, CR}

\* 'tok in line' for a token the program searches for
Contains(line, tok) == \E i \in 1..Len(line) : line[i] = tok

\* 'text in line' for a text of several characters
ContainsSeq(line, text) ==
    \E i \in 1..(Len(line) - Len(text) + 1) :
        SubSeq(line, i, i + Len(text) - 1) = text

\* str(n) and "%d" % n
RECURSIVE NatToStr(_)
NatToStr(n) ==
    IF n < 10 THEN <<Digits[n + 1]>>
    ELSE NatToStr(n \div 10) \o <<Digits[(n % 10) + 1]>>

IntToStr(n) == IF n < 0 THEN <<"-">> \o NatToStr(0 - n) ELSE NatToStr(n)

\* the f-string rendering of a value that may be None
OptToStr(o) == IF o = None THEN <<NONE_TEXT>> ELSE IntToStr(o[1])

\* index of the first occurrence of tok in s, 0 when there is none
FirstIndex(s, tok) ==
    IF Contains(s, tok)
    THEN CHOOSE i \in 1..Len(s) : s[i] = tok /\ \A j \in 1..(i - 1) : s[j] # tok
    ELSE 0

\* s.split(tok)[0]
SplitHead(s, tok) ==
    IF FirstIndex(s, tok) = 0 THEN s ELSE SubSeq(s, 1, FirstIndex(s, tok) - 1)

\* what follows the first tok of s
AfterFirst(s, tok) == SubSeq(s, FirstIndex(s, tok) + 1, Len(s))

RECURSIVE StripLeft(_)
StripLeft(s) ==
    IF s # <<>> /\ IsSpace(s[1]) THEN StripLeft(Tail(s)) ELSE s

RECURSIVE StripRight(_)
StripRight(s) ==
    IF s # <<>> /\ IsSpace(s[Len(s)]) THEN StripRight(SubSeq(s, 1, Len(s) - 1)) ELSE s

RECURSIVE DigitsToNat(_)
DigitsToNat(s) ==
    IF s = <<>> THEN 0
    ELSE 10 * DigitsToNat(SubSeq(s, 1, Len(s) - 1)) + DigitVal(s[Len(s)])

AllDigits(s) == s # <<>> /\ \A i \in 1..Len(s) : IsDigit(s[i])

\* int(text): Some(value), or None where Python raises ValueError
PyInt(text) ==
    LET t == StripRight(StripLeft(text)) IN
    IF t = <<>> THEN None
    ELSE IF t[1] = "-" THEN (IF AllDigits(Tail(t)) THEN Some(0 - DigitsToNat(Tail(t))) ELSE None)
    ELSE IF t[1] = "+" THEN (IF AllDigits(Tail(t)) THEN Some(DigitsToNat(Tail(t))) ELSE None)
    ELSE IF AllDigits(t) THEN Some(DigitsToNat(t)) ELSE None

\* int(line.split("(")[1].split(")")[0]): Some(value), or None where Python
\* raises IndexError (no "(" in the line) or ValueError
ParseParenInt(line) ==
    IF ~Contains(line, "(") THEN None
    ELSE PyInt(SplitHead(SplitHead(AfterFirst(line, "("), "("), ")"))

-----------------------------------------------------------------------------
(* Text-mode files: open(fileName, "r") and open(temp_file_path, "w") *)

\* a stored line as the for loop sees it: universal newlines on input
ReadLine(stored) ==
    LET n == Len(stored) IN
    IF n >= 2 /\ stored[n - 1] = CR /\ stored[n] = NL
    THEN SubSeq(stored, 1, n - 2) \o <<NL>>
    ELSE IF n >= 1 /\ stored[n] = CR
    THEN SubSeq(stored, 1, n - 1) \o <<NL>>
    ELSE stored

\* a written line as it is stored: every "\n" becomes sep
RECURSIVE Encode(_, _)
Encode(line, sep) ==
    IF line = <<>> THEN <<>>
    ELSE (IF Head(line) = NL THEN sep ELSE <<Head(line)>>) \o Encode(Tail(line), sep)

-----------------------------------------------------------------------------
(* The clock *)

Dates == << [year |-> 2024, yday |-> 90], [year |-> 2025, yday |-> 7] >>

\* day_of_year, zero padded to three characters
RECURSIVE PadDay(_)
PadDay(s) == IF Len(s) < 3 THEN PadDay(<<"0">> \o s) ELSE s

DayOfYear(d) == PadDay(IntToStr(d.yday))

\* str(year)[2:]
YearSuffix(d) == SubSeq(IntToStr(d.year), 3, Len(IntToStr(d.year)))

-----------------------------------------------------------------------------
(* The lines main writes *)

major_regex(v) == <<IND, DEF_MAJOR, " ", "(">> \o IntToStr(v) \o <<")", NL>>
revision_regx(v) == <<IND, DEF_REVISION, " ", "(">> \o IntToStr(v) \o <<")", NL>>
version_str(vns) == <<IND, DEF_VERSION, " ", "(">> \o vns \o <<")", NL>>

\* the line the minor branch writes when minor_version is set
MinorLine(v) == major_regex(v)

\* the documented form of a minor marker line, which only input files hold
minor_line(v) == <<IND, DEF_MINOR, " ", "(">> \o IntToStr(v) \o <<")", NL>>

-----------------------------------------------------------------------------
(* One iteration of the for loop *)

\* variant: the same-day rerun writes the revision back without the increment
NextRev_NoIncrement(same_day, parsed, rev_number) ==
    IF same_day THEN parsed[1] ELSE rev_number

\* variant: a new day always restarts the revision at 0
NextRev_ResetsToZero(same_day, parsed, rev_number) ==
    IF same_day THEN parsed[1] + 1 ELSE 0

\* rev_number at a revision marker line
NextRev(same_day, parsed, rev_number) ==
    IF same_day THEN parsed[1] + 1 ELSE rev_number

\* same_day after a version-date marker line
NextSameDay(same_day, line, vns) ==
    IF ContainsSeq(line, vns) THEN TRUE ELSE same_day

\* variant: every marker line is parsed, whatever was read or given before
KeepsExisting_Always(version) == TRUE

\* whether the major (minor) branch parses the line rather than rewriting it
KeepsExisting(version) == version = None

\* The result of the loop body on one line: the line to write, the locals,
\* and whether an exception left the loop before the write.
ProcessLine(line, l) ==
    LET p == ParseParenInt(line)
        ok(w, m) == [raised |-> FALSE, line |-> w, loc |-> m]
        err == [raised |-> TRUE, line |-> line, loc |-> l]
    IN
    IF Contains(line, DEF_MAJOR) THEN
        IF KeepsExisting(l.major_version)
        THEN IF p = None THEN err
             ELSE ok(line, [l EXCEPT !.major_version = p, !.rev_number = p[1]])
        ELSE ok(major_regex(l.major_version[1]), l)
    ELSE IF Contains(line, DEF_MINOR) THEN
        IF KeepsExisting(l.minor_version)
        THEN IF p = None THEN err
             ELSE ok(line, [l EXCEPT !.minor_version = p, !.rev_number = p[1]])
        ELSE ok(MinorLine(l.minor_version[1]), l)
    ELSE IF Contains(line, DEF_VERSION) THEN
        ok(version_str(l.version_num_str),
           [l EXCEPT !.same_day = NextSameDay(l.same_day, line, l.version_num_str)])
    ELSE IF Contains(line, DEF_REVISION) THEN
        IF l.same_day /\ p = None THEN err
        ELSE LET r == NextRev(l.same_day, p, l.rev_number) IN
             ok(revision_regx(r), [l EXCEPT !.rev_number = r])
    ELSE ok(line, l)

\* temp_file.write(line)
WriteLine(lines, line) == Append(lines, line)

\* the version line main prints last
VersionLine(l) ==
    OptToStr(l.major_version) \o <<".">> \o OptToStr(l.minor_version) \o <<".">>
        \o l.version_num_str \o <<".">> \o IntToStr(l.rev_number)

SuccessLine == <<"Version and revision updated successfully.">>

\* what main prints
Printed(verbose, l) ==
    (IF verbose THEN <<SuccessLine>> ELSE <<>>) \o <<VersionLine(l)>>

-----------------------------------------------------------------------------
(* Paths *)

FileName == "version.h"

\* variant: the output is opened on the target itself
temp_file_path_InPlace(fileName) == fileName

temp_file_path(fileName) == fileName \o ".tmp"
Paths == {FileName, temp_file_path(FileName)}

Absent == [exists |-> FALSE, lines |-> <<>>]
Present(ls) == [exists |-> TRUE, lines |-> ls]

File == fs[FileName].lines
TempFile == fs[temp_file_path(FileName)]

-----------------------------------------------------------------------------
(* Files the program may be started on *)

Documented == <<"MAJ", "MIN", "VER", "REV">>

Extras == {"MAJ", "MIN", "VER", "REV", "TXT", "TXTCRLF", "BADMAJ", "BADREV"}

Permuted ==
    { [i \in 1..4 |-> Documented[p[i]]] :
        p \in { q \in [1..4 -> 1..4] : \A i, j \in 1..4 : q[i] = q[j] => i = j } }

Dropped ==
    { SubSeq(Documented, 1, k - 1) \o SubSeq(Documented, k + 1, 4) : k \in 1..4 }

Inserted ==
    { SubSeq(Documented, 1, k) \o <<e>> \o SubSeq(Documented, k + 1, 4) :
        k \in 0..4, e \in Extras }

Shapes == Permuted \cup Dropped \cup Inserted \cup {Documented \o <<"TAIL">>}

\* the line of a kind holding value v; the date line holds the date code of
\* the first day of Dates
MkLine(kind, v) ==
    CASE kind = "MAJ" -> major_regex(v)
      [] kind = "MIN" -> minor_line(v)
      [] kind = "VER" -> version_str(YearSuffix(Dates[1]) \o DayOfYear(Dates[1]))
      [] kind = "REV" -> revision_regx(v)
      [] kind = "TXT" -> <<"/", "/", " ", "f", "(", "x", ")", NL>>
      [] kind = "TXTCRLF" -> <<"/", "/", " ", "f", "(", "x", ")", CR, NL>>
      [] kind = "BADMAJ" -> <<IND, DEF_MAJOR, NL>>
      [] kind = "BADREV" -> <<IND, DEF_REVISION, " ", "(", "x", ")", NL>>
      [] kind = "TAIL" -> <<"#", "e", "n", "d", "i", "f">>

\* the marker line at position i holds the value i - 1
MkFile(shape) == [i \in 1..Len(shape) |-> MkLine(shape[i], i - 1)]

InitFiles == { MkFile(s) : s \in Shapes }

MajorArgs == {None, Some(7)}
MinorArgs == {None, Some(12)}

NoRun == [valid |-> FALSE, n |-> 0, before |-> <<>>, major |-> None,
          minor |-> None, vns |-> <<>>]

NoLocals == [day_of_year |-> <<>>, version_num_str |-> <<>>, same_day |-> FALSE,
             rev_number |-> 0, major_version |-> None, minor_version |-> None]

NoArgs == [major |-> None, minor |-> None, verbose |-> FALSE]

-----------------------------------------------------------------------------
(* State machine *)

Init ==
    /\ now = 1
    /\ linesep \in {<<NL>>, <<CR, NL>>}
    /\ \E f \in InitFiles :
          fs = [p \in Paths |-> IF p = FileName THEN Present(f) ELSE Absent]
    /\ pc = "idle"
    /\ args = NoArgs
    /\ loc = NoLocals
    /\ idx = 1
    /\ out = <<>>
    /\ status = "none"
    /\ orig = <<>>
    /\ last = NoRun
    /\ prev = NoRun
    /\ runs = 0

\* The script is started: main(fileName, major_version, minor_version, verbose).
\* A run stopped from outside is followed no further: the next run would empty
\* the temporary file and find the target as a run of this model leaves it.
Start(mj, mn, vb) ==
    /\ pc = "idle"
    /\ status \notin {"killed", "killed_after"}
    /\ runs < MaxRuns
    /\ runs' = runs + 1
    /\ args' = [major |-> mj, minor |-> mn, verbose |-> vb]
    /\ loc' = [NoLocals EXCEPT !.major_version = mj, !.minor_version = mn]
    /\ orig' = File
    /\ out' = <<>>
    /\ status' = "running"
    /\ idx' = 1
    /\ pc' = "day"
    /\ UNCHANGED <<now, linesep, fs, last, prev>>

\* day_of_year = str(datetime.now().timetuple().tm_yday), zero padded
ReadDay ==
    /\ pc = "day"
    /\ loc' = [loc EXCEPT !.day_of_year = DayOfYear(Dates[now])]
    /\ pc' = "year"
    /\ UNCHANGED <<now, linesep, fs, args, idx, out, status, orig, last, prev, runs>>

\* year = str(datetime.now().year)[2:]; version_num_str = year + day_of_year;
\* same_day = False; rev_number = 0; both files are opened
OpenFiles ==
    /\ pc = "year"
    /\ loc' = [loc EXCEPT !.version_num_str = YearSuffix(Dates[now]) \o loc.day_of_year,
                          !.same_day = FALSE,
                          !.rev_number = 0]
    /\ fs' = [fs EXCEPT ![temp_file_path(FileName)] = Present(<<>>)]
    /\ idx' = 1
    /\ pc' = "scan"
    /\ UNCHANGED <<now, linesep, args, out, status, orig, last, prev, runs>>

\* one iteration of 'for line in original_file'
ScanLine ==
    /\ pc = "scan"
    /\ idx <= Len(File)
    /\ LET r == ProcessLine(ReadLine(File[idx]), loc) IN
       IF r.raised
       THEN /\ pc' = "idle"
            /\ status' = "raised"
            /\ loc' = NoLocals
            /\ args' = NoArgs
            /\ idx' = 1
            /\ UNCHANGED fs
       ELSE /\ fs' = [fs EXCEPT ![temp_file_path(FileName)] =
                         Present(WriteLine(fs[temp_file_path(FileName)].lines,
                                           Encode(r.line, linesep)))]
            /\ loc' = r.loc
            /\ idx' = idx + 1
            /\ UNCHANGED <<pc, status, args>>
    /\ UNCHANGED <<now, linesep, out, orig, last, prev, runs>>

\* os.replace(temp_file_path, fileName)
Replace ==
    /\ pc = "scan"
    /\ idx > Len(File)
    /\ fs' = [p \in Paths |->
                IF p = FileName THEN fs[temp_file_path(FileName)]
                ELSE Absent]
    /\ pc' = "print"
    /\ UNCHANGED <<now, linesep, args, loc, idx, out, status, orig, last, prev, runs>>

\* the two print calls; main returns and its locals are gone
PrintVersion ==
    /\ pc = "print"
    /\ out' = Printed(args.verbose, loc)
    /\ status' = "ok"
    /\ prev' = last
    /\ last' = [valid |-> TRUE, n |-> runs, before |-> orig, major |-> args.major,
                minor |-> args.minor, vns |-> loc.version_num_str]
    /\ pc' = "idle"
    /\ loc' = NoLocals
    /\ args' = NoArgs
    /\ idx' = 1
    /\ UNCHANGED <<now, linesep, fs, orig, runs>>

\* the process is stopped from outside; its locals are gone
Kill ==
    /\ pc # "idle"
    /\ status' = IF pc = "print" THEN "killed_after" ELSE "killed"
    /\ pc' = "idle"
    /\ loc' = NoLocals
    /\ args' = NoArgs
    /\ idx' = 1
    /\ UNCHANGED <<now, linesep, fs, out, orig, last, prev, runs>>

\* Midnight passes.  The program reads the clock twice, in ReadDay and in
\* OpenFiles, so a change of date shows only before a run or between the two.
Tick ==
    /\ pc \in {"idle", "year"}
    /\ now < Len(Dates)
    /\ now' = now + 1
    /\ UNCHANGED <<linesep, fs, pc, args, loc, idx, out, status, orig, last, prev, runs>>

Next ==
    \/ \E mj \in MajorArgs, mn \in MinorArgs, vb \in BOOLEAN : Start(mj, mn, vb)
    \/ ReadDay
    \/ OpenFiles
    \/ ScanLine
    \/ Replace
    \/ PrintVersion
    \/ Kill
    \/ Tick

Spec == Init /\ [][Next]_vars

TypeOK ==
    /\ now \in 1..Len(Dates)
    /\ linesep \in {<<NL>>, <<CR, NL>>}
    /\ pc \in {"idle", "day", "year", "scan", "print"}
    /\ status \in {"none", "running", "ok", "raised", "killed", "killed_after"}
    /\ runs \in 0..MaxRuns
    /\ fs[FileName].exists

-----------------------------------------------------------------------------
(* Reading a file and the output back *)

Markers == {DEF_MAJOR, DEF_MINOR, DEF_VERSION, DEF_REVISION}
HasMarker(line) == \E tok \in Markers : Contains(line, tok)

\* the branch of the loop body a line takes
IsMajorLine(l) == Contains(l, DEF_MAJOR)
IsMinorLine(l) == ~IsMajorLine(l) /\ Contains(l, DEF_MINOR)
IsDateLine(l) == ~IsMajorLine(l) /\ ~Contains(l, DEF_MINOR) /\ Contains(l, DEF_VERSION)
IsRevLine(l) ==
    /\ ~IsMajorLine(l) /\ ~Contains(l, DEF_MINOR) /\ ~Contains(l, DEF_VERSION)
    /\ Contains(l, DEF_REVISION)

LinesOf(f, tok) == { i \in 1..Len(f) : Contains(f[i], tok) }
ValuesOf(f, tok) == { ParseParenInt(f[i]) : i \in LinesOf(f, tok) }
\* each of the four markers on one line, and no two on the same line
OneEach(f) ==
    /\ \A tok \in Markers : Cardinality(LinesOf(f, tok)) = 1
    /\ \A i \in 1..Len(f) : Cardinality({ tok \in Markers : Contains(f[i], tok) }) <= 1
FirstLine(f, tok) == CHOOSE i \in LinesOf(f, tok) : \A j \in LinesOf(f, tok) : i <= j
LastLine(f, tok) == CHOOSE i \in LinesOf(f, tok) : \A j \in LinesOf(f, tok) : j <= i

\* the text between the first "(" of a line and the ")" after it
ParenText(line) == SplitHead(AfterFirst(line, "("), ")")

Bump(o) == IF o = None THEN None ELSE Some(o[1] + 1)

RECURSIVE Split(_, _)
Split(s, tok) ==
    IF ~Contains(s, tok) THEN <<s>>
    ELSE <<SplitHead(s, tok)>> \o Split(AfterFirst(s, tok), tok)

IsIntText(t) == AllDigits(t) \/ (t # <<>> /\ t[1] = "-" /\ AllDigits(Tail(t)))

\* {int}.{int}.{5-digit int}.{int}
IsVersionText(line) ==
    LET c == Split(line, ".") IN
    /\ Len(c) = 4
    /\ IsIntText(c[1])
    /\ IsIntText(c[2])
    /\ Len(c[3]) = 5 /\ AllDigits(c[3])
    /\ IsIntText(c[4])

\* the components of the line printed last
PrintedParts == Split(out[Len(out)], ".")
PrintedMajor == PyInt(PrintedParts[1])
PrintedMinor == PyInt(PrintedParts[2])
PrintedDate == PrintedParts[3]
PrintedRevision == PyInt(PrintedParts[4])

\* main has returned: File is what the run 'last' made of last.before
Completed == pc = "idle" /\ status = "ok"
Consecutive == prev.valid /\ last.valid /\ last.n = prev.n + 1
NoOverride(r) == r.major = None /\ r.minor = None
DocumentedOrder(f) ==
    /\ OneEach(f)
    /\ FirstLine(f, DEF_MAJOR) < FirstLine(f, DEF_MINOR)
    /\ FirstLine(f, DEF_MINOR) < FirstLine(f, DEF_VERSION)
    /\ FirstLine(f, DEF_VERSION) < FirstLine(f, DEF_REVISION)

-----------------------------------------------------------------------------
(* C1 *)

C1_Case ==
    /\ Completed /\ Consecutive
    /\ NoOverride(prev) /\ NoOverride(last)
    /\ prev.vns = last.vns
    /\ OneEach(prev.before)

C1_Result ==
    /\ ValuesOf(File, DEF_REVISION) = { Bump(o) : o \in ValuesOf(last.before, DEF_REVISION) }
    /\ ValuesOf(File, DEF_MAJOR) = ValuesOf(prev.before, DEF_MAJOR)
    /\ ValuesOf(File, DEF_MINOR) = ValuesOf(prev.before, DEF_MINOR)

\* C1 as stated: for every file with the four markers, each on its own line,
\* the second of two consecutive same-day runs without overrides leaves
\* revision one above the first run's and major and minor as they were before
\* the first run.
C1_EveryFile == C1_Case => C1_Result

\* C1 amended: the same, for files whose version-date marker line comes before
\* the revision marker line.
C1_DateBeforeRevision ==
    (C1_Case /\ FirstLine(prev.before, DEF_VERSION) < FirstLine(prev.before, DEF_REVISION))
        => C1_Result

C1_Witness ==
    /\ C1_Case
    /\ FirstLine(prev.before, DEF_VERSION) < FirstLine(prev.before, DEF_REVISION)
    /\ C1_Result
    /\ ValuesOf(last.before, DEF_REVISION) # ValuesOf(prev.before, DEF_REVISION)

-----------------------------------------------------------------------------
(* C2 *)

\* C2: a completed run that follows a run of another day, on a file in the
\* documented form whose date code differs from the new one, writes revision 0
\* and prints revision 0.
C2_RevisionResetOnNewDay ==
    ( /\ Completed /\ Consecutive
      /\ prev.vns # last.vns
      /\ DocumentedOrder(last.before)
      /\ \A i \in LinesOf(last.before, DEF_VERSION) : ParenText(last.before[i]) # last.vns )
    => /\ ValuesOf(File, DEF_REVISION) = {Some(0)}
       /\ PrintedRevision = Some(0)

-----------------------------------------------------------------------------
(* C3 *)

Expected(override, f, tok) == IF override # None THEN {override} ELSE ValuesOf(f, tok)

\* C3: after a run the major marker holds the major override if given, else its
\* old value, and the minor marker holds the minor override if given, else its
\* old value.
C3_OverridesWritten ==
    (Completed /\ OneEach(last.before))
    => /\ ValuesOf(File, DEF_MAJOR) = Expected(last.major, last.before, DEF_MAJOR)
       /\ ValuesOf(File, DEF_MINOR) = Expected(last.minor, last.before, DEF_MINOR)

-----------------------------------------------------------------------------
(* C4 *)

\* C4: a run keeps the number of lines, keeps marker lines at their positions,
\* and leaves every line without a marker as it was stored, at its position.
C4_LinesPreserved ==
    status # "none" =>
        /\ Len(File) = Len(orig)
        /\ \A i \in 1..Len(orig) :
              /\ HasMarker(File[i]) = HasMarker(orig[i])
              /\ ~HasMarker(orig[i]) => File[i] = orig[i]

-----------------------------------------------------------------------------
(* C5 *)

\* C5: every completed run has printed exactly one line of the form
\* {int}.{int}.{5-digit int}.{int}.
C5_OneVersionLine ==
    Completed => Cardinality({ i \in 1..Len(out) : IsVersionText(out[i]) }) = 1

-----------------------------------------------------------------------------
(* C6 *)

Replaced == pc = "print" \/ status \in {"ok", "killed_after"}

\* a complete rewrite of orig: as many lines, every version-date marker line
\* and every revision marker line in the form main writes
CompleteRewrite(f) ==
    /\ Len(f) = Len(orig)
    /\ \A i \in 1..Len(f) :
          /\ IsDateLine(orig[i])
                => (f[i] = Encode(version_str(ParenText(f[i])), linesep)
                    /\ Len(ParenText(f[i])) = 5)
          /\ IsRevLine(orig[i])
                => (ParseParenInt(f[i]) # None
                    /\ f[i] = Encode(revision_regx(ParseParenInt(f[i])[1]), linesep))

\* C6: the target file always exists and holds its original content or the
\* complete rewritten content; until the replace step, and after an abort or a
\* stop before it, it holds the original content, and after the replace step
\* no temporary file is left.
C6_NoPartialState ==
    status # "none" =>
        /\ fs[FileName].exists
        /\ (pc \in {"day", "year", "scan"} \/ status \in {"raised", "killed"}) => File = orig
        /\ Replaced => (CompleteRewrite(File) /\ ~TempFile.exists)

C6_Witness ==
    /\ status = "raised"
    /\ File = orig
    /\ TempFile.exists /\ TempFile.lines # <<>>
    /\ \E i \in 1..Len(TempFile.lines) : TempFile.lines[i] # orig[i]

-----------------------------------------------------------------------------
(* C7 *)

\* C7: a run on a file with exactly one line for each of the four markers
\* leaves a file with exactly one line for each of the four markers.
C7_OneTuple == (Replaced /\ OneEach(orig)) => OneEach(File)

-----------------------------------------------------------------------------
(* C8 *)

C8_Case(override, tok) ==
    /\ Completed
    /\ override = None
    /\ Cardinality(LinesOf(last.before, tok)) > 1
    /\ None \notin ValuesOf(last.before, tok)

\* C8 as stated: of several lines for one marker without override, the last
\* gives the printed value and every one of them keeps its own value.
C8_LastWins ==
    /\ C8_Case(last.major, DEF_MAJOR) =>
          /\ PrintedMajor = ParseParenInt(last.before[LastLine(last.before, DEF_MAJOR)])
          /\ \A i \in LinesOf(last.before, DEF_MAJOR) :
                ParseParenInt(File[i]) = ParseParenInt(last.before[i])
    /\ C8_Case(last.minor, DEF_MINOR) =>
          /\ PrintedMinor = ParseParenInt(last.before[LastLine(last.before, DEF_MINOR)])
          /\ \A i \in LinesOf(last.before, DEF_MINOR) :
                ParseParenInt(File[i]) = ParseParenInt(last.before[i])

\* C8 amended: of several lines for one marker without override, the first
\* gives the printed value, and it keeps its own value.
C8_FirstWins ==
    /\ C8_Case(last.major, DEF_MAJOR) =>
          /\ PrintedMajor = ParseParenInt(last.before[FirstLine(last.before, DEF_MAJOR)])
          /\ ParseParenInt(File[FirstLine(last.before, DEF_MAJOR)])
                = ParseParenInt(last.before[FirstLine(last.before, DEF_MAJOR)])
          /\ Contains(File[FirstLine(last.before, DEF_MAJOR)], DEF_MAJOR)
    /\ C8_Case(last.minor, DEF_MINOR) =>
          /\ PrintedMinor = ParseParenInt(last.before[FirstLine(last.before, DEF_MINOR)])
          /\ ParseParenInt(File[FirstLine(last.before, DEF_MINOR)])
                = ParseParenInt(last.before[FirstLine(last.before, DEF_MINOR)])
          /\ Contains(File[FirstLine(last.before, DEF_MINOR)], DEF_MINOR)

C8_Witness ==
    /\ C8_Case(last.minor, DEF_MINOR)
    /\ Cardinality(ValuesOf(last.before, DEF_MINOR)) > 1
    /\ PrintedMinor = ParseParenInt(last.before[FirstLine(last.before, DEF_MINOR)])
    /\ PrintedMinor # ParseParenInt(last.before[LastLine(last.before, DEF_MINOR)])

-----------------------------------------------------------------------------
(* C9 *)

\* line j is a major (minor) marker line scanned with no value for it yet
ScannedWithoutValue(j) ==
    \/ /\ IsMajorLine(orig[j]) /\ args.major = None
       /\ \A k \in 1..(j - 1) : ~IsMajorLine(orig[k])
    \/ /\ IsMinorLine(orig[j]) /\ args.minor = None
       /\ \A k \in 1..(j - 1) : ~IsMinorLine(orig[k])

\* a version-date line holding the new date code comes before line i
SameDayBefore(i) ==
    \E j \in 1..(i - 1) : IsDateLine(orig[j]) /\ ParenText(orig[j]) = loc.version_num_str

Provisional(i) ==
    LET Q == { j \in 1..(i - 1) : ScannedWithoutValue(j) } IN
    IF Q = {} THEN 0
    ELSE ParseParenInt(orig[CHOOSE j \in Q : \A k \in Q : k <= j])[1]

ExpectedRev(i) ==
    IF SameDayBefore(i) THEN ParseParenInt(orig[i])[1] + 1 ELSE Provisional(i)

\* C9: during the scan same_day is true exactly when a version-date line
\* holding the new date code has been read, and every revision line read was
\* written with its own value + 1 if same_day held there, else with the value
\* of the last major or minor line scanned without a value, else with 0.
C9_RevisionRule ==
    pc = "scan" =>
        /\ loc.same_day = SameDayBefore(idx)
        /\ \A i \in 1..(idx - 1) :
              IsRevLine(orig[i])
                  => TempFile.lines[i] = Encode(revision_regx(ExpectedRev(i)), linesep)

C9_Witness ==
    /\ pc = "scan"
    /\ \E i \in 1..(idx - 1) :
          /\ IsRevLine(orig[i])
          /\ ~SameDayBefore(i)
          /\ Provisional(i) # 0
          /\ TempFile.lines[i] = Encode(revision_regx(Provisional(i)), linesep)
          /\ ParseParenInt(orig[i]) # Some(Provisional(i))

-----------------------------------------------------------------------------
(* C10 *)

\* C10: for a file with one line per marker in the documented order, the four
\* components printed are the values of the four marker lines of the file
\* after the run.
C10_PrintedIsWritten ==
    (Completed /\ DocumentedOrder(last.before))
    => /\ ValuesOf(File, DEF_MAJOR) = {PrintedMajor}
       /\ ValuesOf(File, DEF_MINOR) = {PrintedMinor}
       /\ { ParenText(File[i]) : i \in LinesOf(File, DEF_VERSION) } = {PrintedDate}
       /\ ValuesOf(File, DEF_REVISION) = {PrintedRevision}

====
